---- MODULE Spec2Model ----
(***************************************************************************)
(* custom::unordered_set of src/hash.h: a chained hash set made of a       *)
(* vector of lists (buckets), an element counter and a maximum load        *)
(* factor.  The model follows one set (`this`) and a second set (rhs) that *)
(* is its partner in swap.  Bucket i of the code is buckets[i + 1] here,   *)
(* because TLA+ sequences start at 1.                                      *)
(*                                                                         *)
(* Floats are kept as integers counting quarters (Scale), which is exact   *)
(* for the values used: 1.0 is 4, 0.5 is 2.                                *)
(***************************************************************************)
EXTENDS FiniteSets, Integers, Sequences, TLC

\* ------------------------------------------------------------------ bounds
MaxVal      == 2      \* elements are the integers 0..MaxVal
MaxBuckets  == 3      \* largest argument given to rehash
MaxReserve  == 2      \* largest argument given to reserve
MaxInitBuckets == 2   \* largest bucket count given to unordered_set(size_t)
MaxReserveArg  == 3   \* SpecReserve: reserve is given 0..MaxReserveArg ...
ScenarioReserve == 100 \* ... and this many elements
MaxList        == 2   \* SpecCtor: longest range or value list
MaxListVal     == 1   \* SpecCtor: ranges and value lists hold 0..MaxListVal
MaxUninit      == 1   \* SpecCtor: largest value read from an uninitialised member

\* ------------------------------------------------------- program constants
DefaultBuckets == 8   \* buckets(8) of the default constructor
Scale          == 4   \* float f is kept as the integer f * Scale
DefaultMaxLoad == 4   \* maxLoadFactor(1.0), in quarters

Values   == 0..MaxVal
LoadArgs == {2, 4}    \* arguments of max_load_factor(float): 0.5 and 1.0

\* ---------------------------------------------------------------- helpers
\* std::hash<int> (the default Hash policy): the value itself
Hash(t) == t

\* a vector of n empty lists: custom::vector<custom::list<T>>(n)
EmptyBuckets(n) == [i \in 1..n |-> <<>>]

bucket_count(bk) == Len(bk)

\* unordered_set::bucket
bucket(bk, t) == Hash(t) % bucket_count(bk)

\* list::push_back on bucket i of bk
push_back(bk, i, t) == [bk EXCEPT ![i + 1] = Append(@, t)]

\* the elements of buckets lo..hi of bk, in bucket order then list order
\* (split in halves, so that the recursion stays shallow on a long array)
RECURSIVE FlattenRange(_, _, _)
FlattenRange(bk, lo, hi) ==
    IF lo > hi THEN <<>>
    ELSE IF lo = hi THEN bk[lo]
    ELSE FlattenRange(bk, lo, (lo + hi) \div 2)
            \o FlattenRange(bk, (lo + hi) \div 2 + 1, hi)

\* every element, in bucket order then list order
Flatten(bk) == FlattenRange(bk, 1, Len(bk))

Elements(bk) == {Flatten(bk)[i] : i \in 1..Len(Flatten(bk))}

\* the loop of rehash: every element of elems, in order, is pushed at the
\* back of newBuckets[Hash(e) % numBuckets]
RECURSIVE Reinsert(_, _, _)
Reinsert(newBuckets, elems, numBuckets) ==
    IF elems = <<>> THEN newBuckets
    ELSE Reinsert(push_back(newBuckets, Hash(Head(elems)) % numBuckets, Head(elems)),
                  Tail(elems), numBuckets)

\* ------------------------------------------------------------- iterators
\* vector iterators are indices 0..bucket_count (bucket_count is end());
\* list iterators are <<bucket, position>>; a list's end() and the
\* default-constructed iterators are null.
NullVec  == 0 - 1
NullList == <<>>

iterator(itVectorEnd, itVector, itList) ==
    [itVectorEnd |-> itVectorEnd, itVector |-> itVector, itList |-> itList]

\* iterator::iterator()
DefaultIterator == iterator(NullVec, NullVec, NullList)

\* unordered_set::end
end(bk) == iterator(bucket_count(bk), bucket_count(bk), NullList)

\* list::find: the position of the first element equal to t, or end()
ListFind(list, iBucket, t) ==
    IF \E k \in 1..Len(list) : list[k] = t
    THEN <<iBucket, CHOOSE k \in 1..Len(list) :
                       /\ list[k] = t
                       /\ \A j \in 1..(k - 1) : list[j] # t>>
    ELSE NullList

\* unordered_set::find
find(bk, t) ==
    LET iBucket == bucket(bk, t)
        itList  == ListFind(bk[iBucket + 1], iBucket, t)
    IN  IF itList # NullList
        THEN iterator(bucket_count(bk), iBucket, itList)
        ELSE end(bk)

\* iterator::operator== and operator*
IterEq(x, y) ==
    /\ x.itVectorEnd = y.itVectorEnd
    /\ x.itVector = y.itVector
    /\ x.itList = y.itList

Deref(bk, it) == bk[it.itList[1] + 1][it.itList[2]]

\* ------------------------------------------------------------------ state
VARIABLES
    buckets,        \* this->buckets
    numElements,    \* this->numElements
    maxLoadFactor,  \* this->maxLoadFactor, in quarters
    rhs,            \* the other set: the argument of swap
    live,           \* history: values inserted and not erased since
    mlfDecreased,   \* history: max_load_factor lowered since the last insert
    last            \* history: the last call, its argument and its result

vars == <<buckets, numElements, maxLoadFactor, rhs, live, mlfDecreased, last>>

size == numElements

\* load_factor(): size() / bucket_count() divides two integers
load_factor == (size \div bucket_count(buckets)) * Scale

max_load_factor == maxLoadFactor

\* min_buckets_required with the quotient truncated instead of rounded up
min_buckets_required_truncates(num) == (num * Scale) \div maxLoadFactor

\* min_buckets_required: ceil(num / maxLoadFactor)
min_buckets_required(num) ==
    (num * Scale + maxLoadFactor - 1) \div maxLoadFactor

Call(op, arg, pre, ret) == [op |-> op, arg |-> arg, pre |-> pre, ret |-> ret]

\* ------------------------------------------------------------- traversal
\* list::iterator::operator++ inside bucket list
ListNext(list, itList) ==
    IF itList[2] < Len(list) THEN <<itList[1], itList[2] + 1>> ELSE NullList

\* the while loop of operator++: the first non-empty bucket at or after i
RECURSIVE SkipEmpty(_, _)
SkipEmpty(bk, i) ==
    IF i # bucket_count(bk) /\ bk[i + 1] = <<>> THEN SkipEmpty(bk, i + 1) ELSE i

\* unordered_set::begin
begin(bk) ==
    LET i == SkipEmpty(bk, 0)
    IN  IF i # bucket_count(bk) THEN iterator(bucket_count(bk), i, <<i, 1>>)
        ELSE end(bk)

\* operator++ that ends the traversal at the end of the current bucket
Increment_stays_in_bucket(bk, it) ==
    IF it.itVector = it.itVectorEnd THEN it
    ELSE LET itList == ListNext(bk[it.itVector + 1], it.itList)
         IN  IF itList # NullList THEN [it EXCEPT !.itList = itList]
             ELSE iterator(it.itVectorEnd, it.itVectorEnd, itList)

\* unordered_set::iterator::operator++ (prefix)
Increment(bk, it) ==
    IF it.itVector = it.itVectorEnd THEN it
    ELSE LET itList == ListNext(bk[it.itVector + 1], it.itList)
         IN  IF itList # NullList THEN [it EXCEPT !.itList = itList]
             ELSE LET itVector == SkipEmpty(bk, it.itVector + 1)
                  IN  IF itVector # it.itVectorEnd
                      THEN iterator(it.itVectorEnd, itVector, <<itVector, 1>>)
                      ELSE iterator(it.itVectorEnd, itVector, itList)

\* for (it = begin(); it != end(); ++it): the elements visited, in order
RECURSIVE Walk(_, _, _)
Walk(bk, it, fuel) ==
    IF IterEq(it, end(bk)) \/ fuel = 0 THEN <<>>
    ELSE <<Deref(bk, it)>> \o Walk(bk, Increment(bk, it), fuel - 1)

Traversal(bk) == Walk(bk, begin(bk), Len(Flatten(bk)) + 1)

\* ------------------------------------------------------------ operations
\* rehash with its outer loop started one bucket late
RehashBuckets_skips_bucket0(bk, numBuckets) ==
    IF numBuckets <= bucket_count(bk) THEN bk
    ELSE Reinsert(EmptyBuckets(numBuckets), Flatten(Tail(bk)), numBuckets)

\* rehash that computes the new index with the old bucket count
RehashBuckets_old_count(bk, numBuckets) ==
    IF numBuckets <= bucket_count(bk) THEN bk
    ELSE Reinsert(EmptyBuckets(numBuckets), Flatten(bk), bucket_count(bk))

\* rehash that returns early only for an equal bucket count, and so shrinks
RehashBuckets_shrinks(bk, numBuckets) ==
    IF numBuckets = bucket_count(bk) \/ numBuckets = 0 THEN bk
    ELSE Reinsert(EmptyBuckets(numBuckets), Flatten(bk), numBuckets)

\* the buckets rehash(numBuckets) leaves
RehashBuckets(bk, numBuckets) ==
    IF numBuckets <= bucket_count(bk) THEN bk
    ELSE Reinsert(EmptyBuckets(numBuckets), Flatten(bk), numBuckets)

\* clear with its loop started one bucket late
ClearBuckets_skips_bucket0(bk) ==
    [i \in 1..Len(bk) |-> IF i = 1 THEN bk[i] ELSE <<>>]

\* the buckets clear() leaves
ClearBuckets(bk) == [i \in 1..Len(bk) |-> <<>>]

\* the set the test fixture builds in a set of numBuckets buckets: TestHash
\* is a friend and fills the buckets by hand, each value in its own bucket
Fixture(numBuckets, order) ==
    [buckets       |-> Reinsert(EmptyBuckets(numBuckets), order, numBuckets),
     numElements   |-> Len(order),
     maxLoadFactor |-> DefaultMaxLoad]

\* sequences of distinct values
Orders ==
    {s \in UNION {[1..k -> Values] : k \in 0..(MaxVal + 1)} :
        \A i, j \in 1..Len(s) : i # j => s[i] # s[j]}

InitBucketCounts == (1..MaxInitBuckets) \cup {DefaultBuckets}

\* sets whose load does not exceed the default maximum load factor
FixtureSets ==
    UNION {{Fixture(n, o) : o \in {s \in Orders : Len(s) <= n}} :
           n \in InitBucketCounts}

\* unordered_set() and unordered_set(size_t numBuckets)
ConstructedSets == {Fixture(n, <<>>) : n \in InitBucketCounts}

Init ==
    /\ \E s \in FixtureSets :
          /\ buckets = s.buckets
          /\ numElements = s.numElements
          /\ maxLoadFactor = s.maxLoadFactor
          /\ live = Elements(s.buckets)
    /\ mlfDecreased = FALSE
    /\ rhs \in ConstructedSets
    /\ last = Call("construct", 0, [count |-> 0, size |-> 0, exempt |-> FALSE], DefaultIterator)

\* insert that pushes the value without looking for it first
insert_without_find(t) ==
    /\ buckets' = push_back(buckets, bucket(buckets, t), t)
    /\ numElements' = numElements + 1
    /\ UNCHANGED <<maxLoadFactor, rhs>>
    /\ live' = live \cup {t}
    /\ mlfDecreased' = FALSE
    /\ last' = Call("insert", t, [count |-> bucket_count(buckets), size |-> numElements,
                                  exempt |-> mlfDecreased],
                    [first |-> DefaultIterator, second |-> TRUE])

\* insert(const T&): the body is commented out; the call stores nothing and
\* returns pair(iterator(), true)
insert(t) ==
    /\ UNCHANGED <<buckets, numElements, maxLoadFactor, rhs>>
    /\ live' = live \cup {t}
    /\ mlfDecreased' = FALSE
    /\ last' = Call("insert", t, [count |-> bucket_count(buckets), size |-> numElements,
                                  exempt |-> mlfDecreased],
                    [first |-> DefaultIterator, second |-> TRUE])

\* erase(const T&): the body is commented out; the call removes nothing and
\* returns iterator()
erase(t) ==
    /\ UNCHANGED <<buckets, numElements, maxLoadFactor, rhs, mlfDecreased>>
    /\ live' = live \ {t}
    /\ last' = Call("erase", t, [count |-> bucket_count(buckets), size |-> numElements,
                                 exempt |-> FALSE], DefaultIterator)

rehash(numBuckets) ==
    /\ buckets' = RehashBuckets(buckets, numBuckets)
    /\ UNCHANGED <<numElements, maxLoadFactor, rhs, live, mlfDecreased>>
    /\ last' = Call("rehash", numBuckets, [count |-> bucket_count(buckets), size |-> numElements,
                                           exempt |-> FALSE], DefaultIterator)

reserve(num) ==
    /\ buckets' = RehashBuckets(buckets, min_buckets_required(num))
    /\ UNCHANGED <<numElements, maxLoadFactor, rhs, live, mlfDecreased>>
    /\ last' = Call("reserve", num, [count |-> bucket_count(buckets), size |-> numElements,
                                     exempt |-> FALSE], DefaultIterator)

\* clear that empties the buckets and leaves numElements as it was
clear_keeps_numElements ==
    /\ buckets' = ClearBuckets(buckets)
    /\ live' = {}
    /\ UNCHANGED <<numElements, maxLoadFactor, rhs, mlfDecreased>>
    /\ last' = Call("clear", 0, [count |-> bucket_count(buckets), size |-> numElements,
                                 exempt |-> FALSE], DefaultIterator)

\* clear()
clear ==
    /\ buckets' = ClearBuckets(buckets)
    /\ numElements' = 0
    /\ live' = {}
    /\ UNCHANGED <<maxLoadFactor, rhs, mlfDecreased>>
    /\ last' = Call("clear", 0, [count |-> bucket_count(buckets), size |-> numElements,
                                 exempt |-> FALSE], DefaultIterator)

\* swap that leaves the maximum load factors where they were
swap_without_maxLoadFactor ==
    /\ numElements' = rhs.numElements
    /\ buckets' = rhs.buckets
    /\ rhs' = [buckets       |-> buckets,
               numElements   |-> numElements,
               maxLoadFactor |-> rhs.maxLoadFactor]
    /\ live' = Elements(rhs.buckets)
    /\ UNCHANGED <<maxLoadFactor, mlfDecreased>>
    /\ last' = Call("swap", 0, [count |-> bucket_count(buckets), size |-> numElements,
                                exempt |-> FALSE], DefaultIterator)

\* swap(unordered_set& rhs).  The history of inserted values starts again
\* from what the set now holds; a swap is no call of max_load_factor(float)
swap ==
    /\ numElements' = rhs.numElements
    /\ maxLoadFactor' = rhs.maxLoadFactor
    /\ buckets' = rhs.buckets
    /\ rhs' = [buckets       |-> buckets,
               numElements   |-> numElements,
               maxLoadFactor |-> maxLoadFactor]
    /\ live' = Elements(rhs.buckets)
    /\ UNCHANGED mlfDecreased
    /\ last' = Call("swap", 0, [count |-> bucket_count(buckets), size |-> numElements,
                                exempt |-> FALSE], DefaultIterator)

\* max_load_factor(float m)
set_max_load_factor(m) ==
    /\ maxLoadFactor' = m
    /\ mlfDecreased' = (mlfDecreased \/ m < maxLoadFactor)
    /\ UNCHANGED <<buckets, numElements, rhs, live>>
    /\ last' = Call("max_load_factor", m, [count |-> bucket_count(buckets), size |-> numElements,
                                           exempt |-> FALSE], DefaultIterator)

Next ==
    \/ \E t \in Values : insert(t)
    \/ \E t \in Values : erase(t)
    \/ \E n \in 0..MaxBuckets : rehash(n)
    \/ \E n \in 0..MaxReserve : reserve(n)
    \/ clear
    \/ swap
    \/ \E m \in LoadArgs : set_max_load_factor(m)

Spec == Init /\ [][Next]_vars

\* ================================================================ claims
contents == Elements(buckets)

\* C1: no value occurs twice across all buckets of the set, whatever the
\* sequence of insert, rehash and reserve calls.
NoDuplicates ==
    \A i, j \in 1..Len(Flatten(buckets)) :
        i # j => Flatten(buckets)[i] # Flatten(buckets)[j]

\* a value that the set holds has just been inserted again, in a set that
\* was rehashed or not
NoDuplicates_witness ==
    /\ last.op = "insert"
    /\ last.arg \in contents
    /\ numElements >= 2

\* C2: find(e) is not end() and dereferences to e for every e inserted and
\* not erased since; find(e) is end() for every other e.
FindCorrect ==
    \A e \in Values :
        IF e \in live
        THEN /\ ~IterEq(find(buckets, e), end(buckets))
             /\ Deref(buckets, find(buckets, e)) = e
        ELSE IterEq(find(buckets, e), end(buckets))

LoadFactorBound ==
    (last.op = "insert" /\ ~last.pre.exempt) => load_factor <= max_load_factor

\* C5: an insert of a new value with (size() + 1) / bucket_count() above
\* max_load_factor() doubles the bucket count and then stores the value.
GrowthOnInsert ==
    [][(/\ last'.op = "insert"
        /\ last'.arg \notin contents
        /\ (size + 1) * Scale > maxLoadFactor * bucket_count(buckets))
       => (/\ bucket_count(buckets') = 2 * bucket_count(buckets)
           /\ last'.arg \in contents'
           /\ size' = size + 1)]_vars

\* C6: an insert of a new value appends it at the end of bucket
\* hash(value) mod bucket_count(), adds one to size() and returns
\* (iterator to the new element, true).
InsertNewValue ==
    [][(last'.op = "insert" /\ last'.arg \notin contents)
       => LET list == buckets'[bucket(buckets', last'.arg) + 1]
          IN  /\ size' = size + 1
              /\ list # <<>>
              /\ list[Len(list)] = last'.arg
              /\ last'.ret.second = TRUE
              /\ Deref(buckets', last'.ret.first) = last'.arg]_vars

\* C7: an insert of a value the set holds returns (iterator to that
\* element, false) and changes neither size(), bucket_count() nor a bucket.
ReinsertIdempotent ==
    [][(last'.op = "insert" /\ last'.arg \in contents)
       => (/\ last'.ret.second = FALSE
           /\ IterEq(last'.ret.first, find(buckets, last'.arg))
           /\ buckets' = buckets
           /\ numElements' = numElements)]_vars

\* the list without its elements equal to t
RECURSIVE Without(_, _)
Without(list, t) ==
    IF list = <<>> THEN <<>>
    ELSE IF Head(list) = t THEN Without(Tail(list), t)
         ELSE <<Head(list)>> \o Without(Tail(list), t)

\* C8: erase of a key the set holds removes that element alone, takes one
\* from size() and returns an iterator to the element that followed it in
\* traversal order, or end() when it was the last one.
ErasePresent ==
    [][(last'.op = "erase" /\ last'.arg \in contents)
       => LET following == Increment(buckets, find(buckets, last'.arg))
          IN  /\ size' = size - 1
              /\ buckets' = [i \in 1..Len(buckets) |->
                                Without(buckets[i], last'.arg)]
              /\ IF IterEq(following, end(buckets))
                 THEN IterEq(last'.ret, end(buckets'))
                 ELSE Deref(buckets', last'.ret) = Deref(buckets, following)]_vars

\* C9: erase of a key the set does not hold changes nothing and returns an
\* iterator that compares equal to end().
EraseAbsent ==
    [][(last'.op = "erase" /\ last'.arg \notin contents)
       => (/\ buckets' = buckets
           /\ numElements' = numElements
           /\ IterEq(last'.ret, end(buckets')))]_vars

\* C10: rehash(n) with n > bucket_count() keeps the elements and size() and
\* leaves bucket_count() = n.
RehashPreservesMembership ==
    [][(last'.op = "rehash" /\ last'.arg > bucket_count(buckets))
       => (/\ contents' = contents
           /\ Len(Flatten(buckets')) = Len(Flatten(buckets))
           /\ size' = size
           /\ bucket_count(buckets') = last'.arg)]_vars

\* a rehash that grew a set of two or more elements and moved one of them
\* to a bucket of another index
RehashPreservesMembership_witness ==
    /\ last.op = "rehash"
    /\ last.arg > last.pre.count
    /\ numElements >= 2
    /\ \E e \in contents : Hash(e) % last.pre.count # bucket(buckets, e)


\* C11: every element e of the set is stored in bucket
\* hash(e) mod bucket_count(), for the bucket count the set has now.
BucketPlacement ==
    \A i \in 0..(bucket_count(buckets) - 1) :
        \A k \in 1..Len(buckets[i + 1]) :
            bucket(buckets, buckets[i + 1][k]) = i

\* a reserve that grew the bucket array and gave an element a new index
BucketPlacement_witness ==
    /\ last.op = "reserve"
    /\ bucket_count(buckets) > last.pre.count
    /\ \E e \in contents : Hash(e) % last.pre.count # bucket(buckets, e)

\* C12: rehash(n) with n <= bucket_count() changes neither bucket_count(),
\* size(), max_load_factor() nor the contents and order of any bucket.
RehashNeverShrinks ==
    [][(last'.op = "rehash" /\ last'.arg <= bucket_count(buckets))
       => (/\ buckets' = buckets
           /\ numElements' = numElements
           /\ maxLoadFactor' = maxLoadFactor)]_vars

\* a rehash to fewer buckets than a set of two elements or more has
RehashNeverShrinks_witness ==
    /\ last.op = "rehash"
    /\ last.arg > 0
    /\ last.arg < last.pre.count
    /\ numElements >= 2


\* ---------------------------------------------------------------- reserve
\* SpecReserve: reserve under maximum load factors 0.5, 0.75 and 1.0
ReserveLoadArgs == {2, 3, 4}
ReserveArgs     == (0..MaxReserveArg) \cup {ScenarioReserve}

InitReserve ==
    /\ Init
    /\ rhs = Fixture(DefaultBuckets, <<>>)

NextReserve ==
    \/ \E m \in ReserveLoadArgs : set_max_load_factor(m)
    \/ \E n \in ReserveArgs : reserve(n)

SpecReserve == InitReserve /\ [][NextReserve]_vars

\* the least bucket count c with n / c <= m (m in quarters)
MinCount(n, m) ==
    CHOOSE c \in 0..(n * Scale) :
        /\ n * Scale <= m * c
        /\ c = 0 \/ n * Scale > m * (c - 1)

\* C13: reserve(n) rehashes to the least c with n / c <= max_load_factor()
\* when c exceeds the bucket count and not otherwise; afterwards
\* n / bucket_count() <= max_load_factor(), and the elements and size() are
\* as before.
ReserveEnough ==
    [][last'.op = "reserve"
       => LET c == MinCount(last'.arg, maxLoadFactor)
          IN  /\ bucket_count(buckets') =
                    IF c > bucket_count(buckets) THEN c ELSE bucket_count(buckets)
              /\ last'.arg * Scale <= maxLoadFactor * bucket_count(buckets')
              /\ contents' = contents
              /\ Len(Flatten(buckets')) = Len(Flatten(buckets))
              /\ size' = size
              /\ maxLoadFactor' = maxLoadFactor]_vars

\* reserve(100) under a maximum load factor of 0.75 has left 134 buckets in
\* a set that holds elements
ReserveEnough_witness ==
    /\ last.op = "reserve"
    /\ last.arg = 100
    /\ maxLoadFactor = 3
    /\ bucket_count(buckets) = 134
    /\ last.pre.count < 134
    /\ numElements >= 1


\* C14: after clear() every bucket is empty, size() is 0, begin() equals
\* end(), and bucket_count() and max_load_factor() are as before.
ClearEmpties ==
    [][last'.op = "clear"
       => (/\ \A i \in 1..Len(buckets') : buckets'[i] = <<>>
           /\ size' = 0
           /\ IterEq(begin(buckets'), end(buckets'))
           /\ bucket_count(buckets') = bucket_count(buckets)
           /\ max_load_factor' = max_load_factor)]_vars

\* clear() has emptied a set of two elements or more, under a lowered
\* maximum load factor
ClearEmpties_witness ==
    /\ last.op = "clear"
    /\ last.pre.size >= 2
    /\ maxLoadFactor = 2
    /\ numElements = 0


\* the set `this` as a record of its data members
this == [buckets       |-> buckets,
         numElements   |-> numElements,
         maxLoadFactor |-> maxLoadFactor]

\* C15: after a.swap(b), a has the bucket array, size() and
\* max_load_factor() that b had and b has those that a had; a second swap
\* gives both sets back.
SwapExchanges ==
    [][last'.op = "swap"
       => (/\ this' = rhs
           /\ rhs' = this
           /\ (last.op = "swap" =>
                  /\ bucket_count(buckets') = last.pre.count
                  /\ numElements' = last.pre.size))]_vars

\* a swap between two sets that differ in elements, bucket count and
\* maximum load factor
SwapExchanges_witness ==
    /\ last.op = "swap"
    /\ numElements >= 2
    /\ rhs.numElements = 0
    /\ bucket_count(buckets) # bucket_count(rhs.buckets)
    /\ maxLoadFactor # rhs.maxLoadFactor


\* C16: load_factor() is the exact ratio size() / bucket_count(), not the
\* truncated one (in quarters: load_factor * bucket_count = size * Scale).
LoadFactorExact ==
    load_factor * bucket_count(buckets) = size * Scale


\* the iterator after n prefix increments
RECURSIVE Advance(_, _, _)
Advance(bk, it, n) ==
    IF n = 0 THEN it ELSE Increment(bk, Advance(bk, it, n - 1))

\* C17: from begin(), prefix ++ visits every element once, by increasing
\* bucket index and in list order inside a bucket, skipping empty buckets;
\* after the last element the iterator equals end(), and ++ leaves an
\* iterator at end() where it is.
GlobalTraversal ==
    LET flat  == Flatten(buckets)
        at(k) == Advance(buckets, begin(buckets), k)
    IN  /\ \A k \in 0..(Len(flat) - 1) :
            /\ ~IterEq(at(k), end(buckets))
            /\ buckets[at(k).itVector + 1] # <<>>
            /\ Deref(buckets, at(k)) = flat[k + 1]
        /\ \A k \in 0..(Len(flat) - 2) :
            \/ at(k).itVector < at(k + 1).itVector
            \/ /\ at(k).itVector = at(k + 1).itVector
               /\ at(k).itList[2] + 1 = at(k + 1).itList[2]
        /\ IterEq(at(Len(flat)), end(buckets))
        /\ IterEq(Increment(buckets, end(buckets)), end(buckets))
        /\ IterEq(Increment(buckets, at(Len(flat))), end(buckets))

\* a set that a rehash has left with an empty bucket between two buckets
\* that hold elements
GlobalTraversal_witness ==
    /\ last.op = "rehash"
    /\ bucket_count(buckets) > last.pre.count
    /\ \E i, j, k \in 1..Len(buckets) :
        /\ i < j /\ j < k
        /\ buckets[i] # <<>>
        /\ buckets[j] = <<>>
        /\ buckets[k] # <<>>


\* ---------------------------------------------------- postfix increment
\* iterator::operator++(int): copies *this, increments its int parameter
\* and returns the copy; `it` is the iterator after the call
PostIncrement(bk, it) == [it |-> it, ret |-> it]

\* local_iterator::operator++ (prefix)
LocalIncrement(list, itList) == ListNext(list, itList)

\* local_iterator::operator++(int): returns *this
LocalPostIncrement(list, itList) == [it |-> itList, ret |-> itList]

\* C20: for an iterator or a local iterator at an element, it++ leaves it
\* where ++it would and returns the position it had before.
PostfixAgrees ==
    \A i \in 0..(bucket_count(buckets) - 1) :
        \A k \in 1..Len(buckets[i + 1]) :
            LET it == iterator(bucket_count(buckets), i, <<i, k>>)
            IN  /\ PostIncrement(buckets, it).ret = it
                /\ PostIncrement(buckets, it).it = Increment(buckets, it)
                /\ LocalPostIncrement(buckets[i + 1], <<i, k>>).ret = <<i, k>>
                /\ LocalPostIncrement(buckets[i + 1], <<i, k>>).it =
                       LocalIncrement(buckets[i + 1], <<i, k>>)


\* ------------------------------------------- constructors and assignments
\* SpecCtor: the operations of Spec, max_load_factor(float) left out,
\* together with the constructors, the assignments and
\* insert(initializer_list).
Lists == UNION {[1..k -> 0..MaxListVal] : k \in 0..MaxList}

Range(seq) == {seq[i] : i \in 1..Len(seq)}

Pre == [count |-> bucket_count(buckets), size |-> numElements, exempt |-> FALSE]

\* unordered_set()
construct_default ==
    /\ buckets' = EmptyBuckets(DefaultBuckets)
    /\ numElements' = 0
    /\ maxLoadFactor' = DefaultMaxLoad
    /\ live' = {}
    /\ mlfDecreased' = FALSE
    /\ UNCHANGED rhs
    /\ last' = Call("construct_default", 0, Pre, DefaultIterator)

\* unordered_set(size_t numBuckets)
construct_buckets(numBuckets) ==
    /\ buckets' = EmptyBuckets(numBuckets)
    /\ numElements' = 0
    /\ maxLoadFactor' = DefaultMaxLoad
    /\ live' = {}
    /\ mlfDecreased' = FALSE
    /\ UNCHANGED rhs
    /\ last' = Call("construct_buckets", numBuckets, Pre, DefaultIterator)

\* unordered_set(const unordered_set& rhs), through operator=(const&)
construct_copy ==
    /\ numElements' = rhs.numElements
    /\ maxLoadFactor' = rhs.maxLoadFactor
    /\ buckets' = rhs.buckets
    /\ live' = Elements(rhs.buckets)
    /\ mlfDecreased' = FALSE
    /\ UNCHANGED rhs
    /\ last' = Call("construct_copy", 0, Pre, DefaultIterator)

\* operator=(const unordered_set& rhs)
assign_copy ==
    /\ numElements' = rhs.numElements
    /\ maxLoadFactor' = rhs.maxLoadFactor
    /\ buckets' = rhs.buckets
    /\ live' = Elements(rhs.buckets)
    /\ UNCHANGED <<rhs, mlfDecreased>>
    /\ last' = Call("assign_copy", 0, Pre, DefaultIterator)

\* operator=(unordered_set&& rhs), which unordered_set(unordered_set&&) calls:
\* the members are taken from rhs, whose moved-from vector is empty and is
\* resized to 8 empty buckets
assign_move ==
    /\ numElements' = rhs.numElements
    /\ maxLoadFactor' = rhs.maxLoadFactor
    /\ buckets' = rhs.buckets
    /\ rhs' = [buckets       |-> EmptyBuckets(DefaultBuckets),
               numElements   |-> 0,
               maxLoadFactor |-> DefaultMaxLoad]
    /\ live' = Elements(rhs.buckets)
    /\ UNCHANGED mlfDecreased
    /\ last' = Call("assign_move", 0, Pre, DefaultIterator)

\* unordered_set(Iterator first, Iterator last): buckets is default
\* constructed (no bucket); reserve(last - first) divides by maxLoadFactor
\* before it is set, so it rehashes to any count c; maxLoadFactor = 1.0;
\* insert stores nothing; numElements is never set and reads as any n
construct_range(seq) ==
    \E c \in 0..MaxUninit, n \in 0..MaxUninit :
        /\ buckets' = RehashBuckets(<<>>, c)
        /\ maxLoadFactor' = DefaultMaxLoad
        /\ numElements' = n
        /\ live' = Range(seq)
        /\ mlfDecreased' = FALSE
        /\ UNCHANGED rhs
        /\ last' = Call("construct_range", seq, Pre, DefaultIterator)

\* operator=(const std::initializer_list<T>& il): clear(), reserve(il.size())
\* and one insert per element, which stores nothing
assign_list(il) ==
    /\ buckets' = RehashBuckets(ClearBuckets(buckets), min_buckets_required(Len(il)))
    /\ numElements' = 0
    /\ live' = Range(il)
    /\ mlfDecreased' = FALSE
    /\ UNCHANGED <<maxLoadFactor, rhs>>
    /\ last' = Call("assign_list", il, Pre, DefaultIterator)

\* insert(const std::initializer_list<T>& il): the body is empty
insert_list(il) ==
    /\ UNCHANGED <<buckets, numElements, maxLoadFactor, rhs, mlfDecreased>>
    /\ live' = live \cup Range(il)
    /\ last' = Call("insert_list", il, Pre, DefaultIterator)

NextCtor ==
    \/ \E t \in Values : insert(t)
    \/ \E t \in Values : erase(t)
    \/ \E n \in 0..MaxBuckets : rehash(n)
    \/ \E n \in 0..MaxReserve : reserve(n)
    \/ clear
    \/ swap
    \/ construct_default
    \/ \E n \in 0..MaxInitBuckets : construct_buckets(n)
    \/ construct_copy
    \/ assign_copy
    \/ assign_move
    \/ \E seq \in Lists : construct_range(seq)
    \/ \E il \in Lists : assign_list(il)
    \/ \E il \in Lists : insert_list(il)

SpecCtor == Init /\ [][NextCtor]_vars


\* C18: after a construction from a range, or an assignment of a value
\* list, the set holds exactly the distinct values given and size() is
\* their number.
BulkConstruction ==
    (last.op \in {"construct_range", "assign_list"})
        => /\ contents = Range(last.arg)
           /\ size = Cardinality(Range(last.arg))

\* C19: bucket_count() >= 1 after every constructor and every sequence of
\* operations and assignments, for the set and for the other one (the
\* source of a move assignment).
BucketCountPositive ==
    /\ bucket_count(buckets) >= 1
    /\ bucket_count(rhs.buckets) >= 1

====
